---- MODULE Spec2Model ----
(***************************************************************************)
(* A model of AnkiLPCG's note generation engine (src/src/gen_notes.py):    *)
(* the poem-line chain, the context / recitation windowing of its nodes,   *)
(* and add_notes, which builds the chain, samples it and registers one     *)
(* note per sampled node before it saves the whole poem.                   *)
(*                                                                         *)
(* Strings are sequences of tokens: a poem line is a sequence of one-      *)
(* character strings, and a piece of literal markup ("<p>", "</p>") is one *)
(* token.  ''.join is concatenation of those sequences.                    *)
(***************************************************************************)
EXTENDS Integers, Sequences, FiniteSets, TLC

(***************************************************************************)
(* Bounds of the model.                                                    *)
(***************************************************************************)
MaxLines == 4       \* longest cleansed line list handed to add_notes
MaxGroup == 2       \* largest group_lines
MaxStep == 2        \* largest step
MaxContext == 2     \* largest context_lines
MaxRecite == 2      \* largest recite_lines

(***************************************************************************)
(* Python values.                                                          *)
(***************************************************************************)
\* None, where the code has it among strings (zip_longest's fill value).
None == <<"None">>

\* The empty string ''.
EmptyStr == <<>>

\* bool(s) of a string-or-None s, as in "if s".
Truthy(s) == s # None /\ s # EmptyStr

\* sub in s, for strings.
Contains(sub, s) ==
    \E i \in 1..(Len(s) + 1) :
        /\ i + Len(sub) - 1 <= Len(s)
        /\ SubSeq(s, i, i + Len(sub) - 1) = sub

\* s[lo:hi] for 0 <= lo, which clamps at the end of s and never raises.
PySlice(s, lo, hi) ==
    LET top == IF hi < Len(s) THEN hi ELSE Len(s)
    IN  IF lo + 1 > top THEN <<>> ELSE SubSeq(s, lo + 1, top)

\* s[0::step], the items at indices 0, step, 2*step, ...
RECURSIVE SliceStep(_, _)
SliceStep(s, st) ==
    IF s = <<>> THEN <<>>
    ELSE <<Head(s)>> \o SliceStep(PySlice(s, st, Len(s)), st)

\* ''.join(parts), and the concatenation of a list of lists.
RECURSIVE Join(_)
Join(parts) ==
    IF parts = <<>> THEN <<>> ELSE Head(parts) \o Join(Tail(parts))

\* reversed(s)
Reversed(s) == [i \in 1..Len(s) |-> s[Len(s) + 1 - i]]

\* str(n) for an integer n >= 0: its decimal digits.
Digits == <<"0", "1", "2", "3", "4", "5", "6", "7", "8", "9">>
RECURSIVE Str(_)
Str(n) ==
    IF n < 10 THEN <<Digits[n + 1]>>
    ELSE Str(n \div 10) \o <<Digits[(n % 10) + 1]>>

\* A variant of MathCeil that rounds down, as int(a / b) would.
MathFloor(a, b) == a \div b

\* math.ceil(a / b) for a >= 0, b >= 1.
MathCeil(a, b) == IF a % b = 0 THEN a \div b ELSE (a \div b) + 1

\* "<p>%s</p>" % s
P(s) == <<"<p>">> \o s \o <<"</p>">>

(***************************************************************************)
(* The inputs of add_notes.                                                *)
(***************************************************************************)
\* The lines a cleansed text is made of: two verses (they hold the caesura
\* "*") and one header line (it does not).
LinePool == { <<"a", "*">>, <<"b", "*">>, <<"H">> }

Texts == UNION { [1..n -> LinePool] : n \in 1..MaxLines }

ImportMode == {"CUSTOM", "AUTOMATIC", "BY_SECTION"}

MediaImportMode == {"BULK", "ONE_FOR_EACH_NOTE", "BY_RECITE_LINES"}

\* The media file names the dialog hands over.
MediaList == << <<"m1">>, <<"m2">> >>

\* config.get("beginningLine", ...)
BeginningLine == <<"[B]">>

VARIABLES
    args,        \* the arguments of the add_notes call
    pc,          \* where add_notes is: "call", "loop", "done", "raised"
    nodes,       \* the PoemLine objects; nodes[1] is the Beginning node
    lines,       \* add_notes' local list of the nodes to make notes from
    title,       \* add_notes' local title
    added,       \* add_notes' counter of the notes added
    media_added, \* By-section mode's count of media items handed out
    notes,       \* col's notes, in the order of the addNote calls
    handed,      \* the list of nodes save_whole_poem was called with
    poem,        \* save_whole_poem's list of formatted lines
    ret,         \* the value add_notes returned, -1 before it returns
    error        \* the exception add_notes raised, "" when none

vars == <<args, pc, nodes, lines, title, added, media_added, notes,
          handed, poem, ret, error>>

(***************************************************************************)
(* The PoemLine classes.  A node refers to its predecessor and successor   *)
(* by their index in nodes; successor 0 is None.                           *)
(***************************************************************************)
\* PoemLine.__init__ followed by Beginning.__init__; the node is its own
\* predecessor, at index self.
Beginning(text, self) ==
    [cls |-> "Beginning", text |-> text, text_lines |-> <<>>,
     predecessor |-> self, successor |-> 0, seq |-> 0, start_index |-> 0,
     subtitle |-> EmptyStr, subtitle_is_str |-> TRUE]

\* SingleLine.__init__
SingleLine(ns, text, predecessor, subtitle) ==
    [cls |-> "SingleLine", text |-> text, text_lines |-> <<>>,
     predecessor |-> predecessor, successor |-> 0,
     seq |-> ns[predecessor].seq + 1,
     start_index |-> ns[predecessor].start_index + 1,
     subtitle |-> subtitle, subtitle_is_str |-> TRUE]

\* len(getattr(node, 'text_lines', ['']))
TextLinesLen(node) ==
    IF node.cls \in {"GroupedLine", "PoemSection"}
    THEN Len(node.text_lines) ELSE 1

\* A variant of GroupedLine.__init__ whose start_index counts nodes, as
\* SingleLine.__init__ does.
GroupedLine_by_node(cls, ns, text, predecessor, subtitle, subtitle_is_str) ==
    [cls |-> cls, text |-> EmptyStr, text_lines |-> text,
     predecessor |-> predecessor, successor |-> 0,
     seq |-> ns[predecessor].seq + 1,
     start_index |-> ns[predecessor].start_index + 1,
     subtitle |-> subtitle, subtitle_is_str |-> subtitle_is_str]

\* GroupedLine.__init__ (PoemSection inherits it); the subtitle is a string
\* or a tuple of strings and Nones.
GroupedLine(cls, ns, text, predecessor, subtitle, subtitle_is_str) ==
    [cls |-> cls, text |-> EmptyStr, text_lines |-> text,
     predecessor |-> predecessor, successor |-> 0,
     seq |-> ns[predecessor].seq + 1,
     start_index |-> ns[predecessor].start_index
                        + TextLinesLen(ns[predecessor]),
     subtitle |-> subtitle, subtitle_is_str |-> subtitle_is_str]

(***************************************************************************)
(* Windowing: context, recitation, prompt and subtitle trail of a node.    *)
(* ns is the list of nodes, n the index of the node asked.  get_context,   *)
(* get_text, get_prompt and format_subtitles are Python's method dispatch  *)
(* on the class of the node.                                               *)
(***************************************************************************)
RECURSIVE get_context(_, _, _, _)
RECURSIVE get_text(_, _, _)
RECURSIVE format_subtitles(_, _, _)

\* Beginning._get_context
Beginning_get_context(ns, n, k, recursing) == <<ns[n].text>>

\* A variant of SingleLine._get_context whose outermost call appends the
\* line itself, like the recursive calls.
SingleLine_get_context_own(ns, n, k, recursing) ==
    IF k = 0 THEN <<ns[n].text>>
    ELSE get_context(ns, ns[n].predecessor, k - 1, TRUE) \o <<ns[n].text>>

\* SingleLine._get_context
SingleLine_get_context(ns, n, k, recursing) ==
    IF k = 0 THEN <<ns[n].text>>
    ELSE IF ~recursing
         THEN get_context(ns, ns[n].predecessor, k - 1, TRUE)
         ELSE get_context(ns, ns[n].predecessor, k - 1, TRUE) \o <<ns[n].text>>

\* A variant of GroupedLine._get_context whose outermost call appends the
\* group's own lines, like the recursive calls.
GroupedLine_get_context_own(ns, n, k, recursing) ==
    IF k = 0 THEN ns[n].text_lines
    ELSE get_context(ns, ns[n].predecessor, k - 1, TRUE) \o ns[n].text_lines

\* GroupedLine._get_context
GroupedLine_get_context(ns, n, k, recursing) ==
    IF k = 0 THEN ns[n].text_lines
    ELSE IF ~recursing
         THEN get_context(ns, ns[n].predecessor, k - 1, TRUE)
         ELSE get_context(ns, ns[n].predecessor, k - 1, TRUE)
                \o ns[n].text_lines

\* PoemSection._get_context
PoemSection_get_context(ns, n, k, recursing) == <<ns[n].subtitle>>

get_context(ns, n, k, recursing) ==
    CASE ns[n].cls = "Beginning" -> Beginning_get_context(ns, n, k, recursing)
      [] ns[n].cls = "SingleLine" -> SingleLine_get_context(ns, n, k, recursing)
      [] ns[n].cls = "GroupedLine" -> GroupedLine_get_context(ns, n, k, recursing)
      [] ns[n].cls = "PoemSection" -> PoemSection_get_context(ns, n, k, recursing)

\* A variant of SingleLine._get_text that stops one line late (k = 0).
SingleLine_get_text_late(ns, n, k) ==
    IF k = 0 \/ ns[n].successor = 0 THEN <<ns[n].text>>
    ELSE <<ns[n].text>> \o get_text(ns, ns[n].successor, k - 1)

\* SingleLine._get_text
SingleLine_get_text(ns, n, k) ==
    IF k = 1 \/ ns[n].successor = 0 THEN <<ns[n].text>>
    ELSE <<ns[n].text>> \o get_text(ns, ns[n].successor, k - 1)

\* GroupedLine._get_text
GroupedLine_get_text(ns, n, k) ==
    IF k = 1 \/ ns[n].successor = 0 THEN ns[n].text_lines
    ELSE ns[n].text_lines \o get_text(ns, ns[n].successor, k - 1)

\* A variant of PoemSection._get_text that keeps the window of
\* GroupedLine._get_text.
PoemSection_get_text_windowed(ns, n, k) ==
    IF k = 1 \/ ns[n].successor = 0 THEN ns[n].text_lines
    ELSE ns[n].text_lines \o get_text(ns, ns[n].successor, k - 1)

\* PoemSection._get_text
PoemSection_get_text(ns, n, k) == ns[n].text_lines

\* Beginning._get_text raises, and no node has the Beginning node as its
\* successor: the dispatch has no case for it.
get_text(ns, n, k) ==
    CASE ns[n].cls = "SingleLine" -> SingleLine_get_text(ns, n, k)
      [] ns[n].cls = "GroupedLine" -> GroupedLine_get_text(ns, n, k)
      [] ns[n].cls = "PoemSection" -> PoemSection_get_text(ns, n, k)

\* "[...%d]" % lines_to_recite
PromptText(lines_to_recite) == <<"[...">> \o Str(lines_to_recite) \o <<"]">>

\* SingleLine._get_prompt; None is no prompt.
SingleLine_get_prompt(ns, n, configured_recitation_lines) ==
    LET lines_to_recite ==
            Len(SingleLine_get_text(ns, n, configured_recitation_lines))
    IN  IF lines_to_recite = 1 THEN None ELSE PromptText(lines_to_recite)

\* A variant of GroupedLine._get_prompt that shows the configured number.
GroupedLine_get_prompt_configured(ns, n, configured_recitation_lines) ==
    IF configured_recitation_lines = 1 THEN None
    ELSE PromptText(configured_recitation_lines)

\* GroupedLine._get_prompt, which PoemSection inherits: self._get_text is
\* the method of the node's own class.
GroupedLine_get_prompt(ns, n, configured_recitation_lines) ==
    LET lines_to_recite == Len(get_text(ns, n, configured_recitation_lines))
    IN  IF lines_to_recite = 1 THEN None ELSE PromptText(lines_to_recite)

get_prompt(ns, n, configured_recitation_lines) ==
    IF ns[n].cls = "SingleLine"
    THEN SingleLine_get_prompt(ns, n, configured_recitation_lines)
    ELSE GroupedLine_get_prompt(ns, n, configured_recitation_lines)

\* The while loop of PoemLine._format_subtitles.
RECURSIVE SubtitlesLoop(_, _, _, _, _)
SubtitlesLoop(ns, cur, suc, context_lines, subs) ==
    IF context_lines > 0
    THEN SubtitlesLoop(ns, ns[cur].predecessor, cur, context_lines - 1,
             IF Truthy(ns[cur].subtitle)
                /\ ns[cur].subtitle # ns[suc].subtitle
             THEN Append(subs, P(ns[cur].subtitle)) ELSE subs)
    ELSE subs

\* PoemLine._format_subtitles, which Beginning and SingleLine inherit.
PoemLine_format_subtitles(ns, n, context_lines) ==
    LET subs == IF Truthy(ns[n].subtitle) THEN <<P(ns[n].subtitle)>> ELSE <<>>
    IN  Join(Reversed(
            SubtitlesLoop(ns, ns[n].predecessor, n, context_lines, subs)))

\* The for loop of GroupedLine._format_subtitles over a tuple subtitle.
RECURSIVE GroupSubtitles(_, _, _)
GroupSubtitles(subtitle, prev, subs) ==
    IF subtitle = <<>> THEN subs
    ELSE LET s == Head(subtitle) IN
         GroupSubtitles(Tail(subtitle), s,
             IF Truthy(s) /\ s # prev THEN Append(subs, P(s)) ELSE subs)

\* GroupedLine._format_subtitles
GroupedLine_format_subtitles(ns, n, context_lines) ==
    IF context_lines < 0 THEN EmptyStr
    ELSE LET subs == IF ns[n].subtitle_is_str
                     THEN <<P(ns[n].subtitle)>>
                     ELSE GroupSubtitles(ns[n].subtitle, EmptyStr, <<>>)
             prev_sub == format_subtitles(ns, ns[n].predecessor,
                                          context_lines - 1)
         IN  prev_sub \o Join(Reversed(subs))

\* PoemSection._format_subtitles
PoemSection_format_subtitles(ns, n, context_lines) == EmptyStr

format_subtitles(ns, n, context_lines) ==
    CASE ns[n].cls \in {"Beginning", "SingleLine"} ->
            PoemLine_format_subtitles(ns, n, context_lines)
      [] ns[n].cls = "GroupedLine" ->
            GroupedLine_format_subtitles(ns, n, context_lines)
      [] ns[n].cls = "PoemSection" ->
            PoemSection_format_subtitles(ns, n, context_lines)

\* PoemLine._format_context
format_context(ns, n, context_lines) ==
    LET c == get_context(ns, n, context_lines, FALSE)
    IN  Join([i \in 1..Len(c) |-> P(c[i])])

\* PoemLine._format_text
format_text(ns, n, recitation_lines) ==
    LET t == get_text(ns, n, recitation_lines)
    IN  Join([i \in 1..Len(t) |-> P(t[i])])

\* PoemLine._format_media
format_media(media) == Join(media)

(***************************************************************************)
(* Notes.  The fields are, in the order populate_note sets them: title     *)
(* (العنوان), subtitles (الباب), number (الرقم), context (السياق), text    *)
(* (الأبيات), media (وسائط), current (الحالي), special (خاص (لا تعدل)) and *)
(* prompt (محث).                                                           *)
(***************************************************************************)
\* note_constructor(col, model): a note with every field empty.
note_constructor ==
    [did |-> 0, tags |-> <<>>, title |-> EmptyStr, subtitles |-> EmptyStr,
     number |-> EmptyStr, context |-> EmptyStr, text |-> EmptyStr,
     media |-> EmptyStr, current |-> EmptyStr, special |-> EmptyStr,
     prompt |-> EmptyStr]

\* A variant of populate_note whose context window is counted in sampled
\* nodes: it reaches back context_lines * step positions.
populate_note_stepped(ns, n, note, ttl, tags, context_lines, recite_lines, deck_id, st, media) ==
    LET prompt == get_prompt(ns, n, recite_lines)
        filled == [note EXCEPT
            !.did = deck_id,
            !.tags = tags,
            !.title = ttl,
            !.subtitles = format_subtitles(ns, n, context_lines * st),
            !.number = Str(MathCeil(ns[n].seq, st)),
            !.context = format_context(ns, n, context_lines * st),
            !.text = format_text(ns, n, recite_lines),
            !.media = format_media(media),
            !.current = Str(ns[n].start_index),
            !.special = <<"<img src=_">> \o ttl \o <<".js>">>]
    IN  IF prompt # None THEN [filled EXCEPT !.prompt = prompt] ELSE filled

\* PoemLine.populate_note on the node ns[n]: the note as it leaves it.
populate_note(ns, n, note, ttl, tags, context_lines, recite_lines, deck_id, st, media) ==
    LET prompt == get_prompt(ns, n, recite_lines)
        filled == [note EXCEPT
            !.did = deck_id,
            !.tags = tags,
            !.title = ttl,
            !.subtitles = format_subtitles(ns, n, context_lines),
            !.number = Str(MathCeil(ns[n].seq, st)),
            !.context = format_context(ns, n, context_lines),
            !.text = format_text(ns, n, recite_lines),
            !.media = format_media(media),
            !.current = Str(ns[n].start_index),
            !.special = <<"<img src=_">> \o ttl \o <<".js>">>]
    IN  IF prompt # None THEN [filled EXCEPT !.prompt = prompt] ELSE filled

\* The fields populate_note assigns with note[...] = ..., in its order, and
\* all of them as the fields of a note type.
FieldOrder ==
    <<"title", "subtitles", "number", "context", "text", "media", "current",
      "special", "prompt">>

NoteFields == {FieldOrder[i] : i \in 1..Len(FieldOrder)}

\* The KeyError a note raises for the field, as the caller sees it.
KeyErrorOf ==
    [title |-> "KeyError: title", subtitles |-> "KeyError: subtitles",
     number |-> "KeyError: number", context |-> "KeyError: context",
     text |-> "KeyError: text", media |-> "KeyError: media",
     current |-> "KeyError: current", special |-> "KeyError: special",
     prompt |-> "KeyError: prompt"]

\* The first field populate_note assigns on the node ns[n] that a note
\* with the fields note_fields lacks; "" when it lacks none of them.  The
\* prompt is assigned only when there is one.
MissingField(ns, n, note_fields, recite_lines) ==
    LET assigned == SelectSeq(FieldOrder,
            LAMBDA f : f # "prompt" \/ get_prompt(ns, n, recite_lines) # None)
        missing == SelectSeq(assigned, LAMBDA f : f \notin note_fields)
    IN  IF missing = <<>> THEN "" ELSE missing[1]

(***************************************************************************)
(* Building the chain.  A builder's state: the nodes made so far, the list *)
(* "lines" it returns, and pred, the index of the node made last.          *)
(***************************************************************************)
\* beginning = Beginning(...); lines = []; pred = beginning
BuilderStart ==
    [nodes |-> <<Beginning(BeginningLine, 1)>>, lines |-> <<>>, pred |-> 1]

\* A variant of the three statements without pred.successor = poem_line.
Link_forward_only(b, poem_line, entry) ==
    [nodes |-> Append(b.nodes, poem_line),
     lines |-> Append(b.lines, entry),
     pred |-> Len(b.nodes) + 1]

\* lines.append(entry); pred.successor = poem_line; pred = poem_line, for
\* the node poem_line just made, which gets the next index.
Link(b, poem_line, entry) ==
    LET idx == Len(b.nodes) + 1
    IN  [nodes |-> Append([b.nodes EXCEPT ![b.pred].successor = idx], poem_line),
         lines |-> Append(b.lines, entry),
         pred |-> idx]

\* A variant of groups_of_n that drops an incomplete last group, as zip
\* would.
RECURSIVE groups_of_n_zip(_, _)
groups_of_n_zip(iterable, n) ==
    IF Len(iterable) < n THEN <<>>
    ELSE <<SubSeq(iterable, 1, n)>>
            \o groups_of_n_zip(PySlice(iterable, n, Len(iterable)), n)

\* groups_of_n(iterable, n) = zip_longest(*[iter(iterable)]*n): tuples of n
\* items, the last one filled up with None.
RECURSIVE groups_of_n(_, _)
groups_of_n(iterable, n) ==
    IF iterable = <<>> THEN <<>>
    ELSE <<[j \in 1..n |-> IF j <= Len(iterable) THEN iterable[j] ELSE None]>>
            \o groups_of_n(PySlice(iterable, n, Len(iterable)), n)

\* A variant that keeps the fill values of the last group.
NotNone_keep(line_set) == line_set

\* [i for i in line_set if i is not None]
NotNone(line_set) == SelectSeq(line_set, LAMBDA i : i # None)

\* The group_lines == 1 loop of _poemlines_from_textlines.
RECURSIVE SingleLoop(_, _)
SingleLoop(b, text_lines) ==
    IF text_lines = <<>> THEN b
    ELSE SingleLoop(
            Link(b, SingleLine(b.nodes, Head(text_lines), b.pred, EmptyStr),
                 Len(b.nodes) + 1),
            Tail(text_lines))

\* The other loop of _poemlines_from_textlines, over the groups.
RECURSIVE GroupedLoop(_, _)
GroupedLoop(b, groups) ==
    IF groups = <<>> THEN b
    ELSE GroupedLoop(
            Link(b, GroupedLine("GroupedLine", b.nodes, NotNone(Head(groups)),
                                b.pred, EmptyStr, TRUE),
                 Len(b.nodes) + 1),
            Tail(groups))

\* _poemlines_from_textlines: the nodes and the list returned.
poemlines_from_textlines(text_lines, group_lines) ==
    IF group_lines = 1
    THEN SingleLoop(BuilderStart, text_lines)
    ELSE GroupedLoop(BuilderStart, groups_of_n(text_lines, group_lines))

\* A variant of the loop that forgets the subtitle once a verse has taken
\* it.
RECURSIVE ParseLoop_forgetful(_, _, _, _, _)
ParseLoop_forgetful(text_lines, caesura, i, cur_subtitle, parsed) ==
    IF i < Len(text_lines)
    THEN IF ~Contains(caesura, text_lines[i + 1])
         THEN ParseLoop_forgetful(text_lines, caesura, i + 1,
                  text_lines[i + 1], parsed)
         ELSE ParseLoop_forgetful(text_lines, caesura, i + 1, EmptyStr,
                  [parsed EXCEPT
                      !.verses = Append(@, text_lines[i + 1]),
                      !.subtitles = Append(@, cur_subtitle)])
    ELSE parsed

\* automatic_parse_text, from the state of its while loop at index i.
RECURSIVE ParseLoop(_, _, _, _, _)
ParseLoop(text_lines, caesura, i, cur_subtitle, parsed) ==
    IF i < Len(text_lines)
    THEN IF ~Contains(caesura, text_lines[i + 1])
         THEN ParseLoop(text_lines, caesura, i + 1, text_lines[i + 1], parsed)
         ELSE ParseLoop(text_lines, caesura, i + 1, cur_subtitle,
                  [parsed EXCEPT
                      !.verses = Append(@, text_lines[i + 1]),
                      !.subtitles = Append(@, cur_subtitle)])
    ELSE parsed

\* A variant of automatic_parse_text whose loop starts at the title line.
automatic_parse_text_from_title(text_lines, caesura) ==
    ParseLoop(text_lines, caesura, 0, EmptyStr,
              [title |-> text_lines[1], verses |-> <<>>, subtitles |-> <<>>])

\* automatic_parse_text(lines, caesura), for a list with a first line.
automatic_parse_text(text_lines, caesura) ==
    ParseLoop(text_lines, caesura, 1, EmptyStr,
              [title |-> text_lines[1], verses |-> <<>>, subtitles |-> <<>>])

\* The group_lines == 1 loop of _poemlines_from_textlines_automatic.
RECURSIVE AutomaticSingleLoop(_, _, _)
AutomaticSingleLoop(b, parsed, i) ==
    IF i >= Len(parsed.verses) THEN b
    ELSE AutomaticSingleLoop(
            Link(b, SingleLine(b.nodes, parsed.verses[i + 1], b.pred,
                               parsed.subtitles[i + 1]),
                 Len(b.nodes) + 1),
            parsed, i + 1)

\* Its other loop: the i-th group of verses gets the i-th group of subtitles.
RECURSIVE AutomaticGroupedLoop(_, _, _, _)
AutomaticGroupedLoop(b, groups, subtitle_set, i) ==
    IF i >= Len(groups) THEN b
    ELSE AutomaticGroupedLoop(
            Link(b, GroupedLine("GroupedLine", b.nodes, NotNone(groups[i + 1]),
                                b.pred, subtitle_set[i + 1], FALSE),
                 Len(b.nodes) + 1),
            groups, subtitle_set, i + 1)

\* _poemlines_from_textlines_automatic
poemlines_from_textlines_automatic(parsed, group_lines) ==
    IF group_lines = 1
    THEN AutomaticSingleLoop(BuilderStart, parsed, 0)
    ELSE AutomaticGroupedLoop(BuilderStart,
             groups_of_n(parsed.verses, group_lines),
             groups_of_n(parsed.subtitles, group_lines), 0)

\* A variant of the generator whose slice at a change of subtitle starts
\* one verse late.
RECURSIVE SectionLoop_late(_, _, _, _, _)
SectionLoop_late(parsed, i, cur_subtitle, section_lines_count, yielded) ==
    IF i < Len(parsed.verses)
    THEN IF cur_subtitle # parsed.subtitles[i + 1]
         THEN SectionLoop_late(parsed, i + 1, parsed.subtitles[i + 1], 1,
                  Append(yielded,
                         <<cur_subtitle,
                           PySlice(parsed.verses, i - section_lines_count + 1, i)>>))
         ELSE SectionLoop_late(parsed, i + 1, cur_subtitle,
                               section_lines_count + 1, yielded)
    ELSE Append(yielded,
                <<cur_subtitle,
                  PySlice(parsed.verses, (i - 1) - section_lines_count + 1,
                          Len(parsed.verses))>>)

\* The generator get_section_lines, from the state of its for loop at index
\* i: the (subtitle, lines) pairs it yields, for at least one verse.
RECURSIVE SectionLoop(_, _, _, _, _)
SectionLoop(parsed, i, cur_subtitle, section_lines_count, yielded) ==
    IF i < Len(parsed.verses)
    THEN IF cur_subtitle # parsed.subtitles[i + 1]
         THEN SectionLoop(parsed, i + 1, parsed.subtitles[i + 1], 1,
                  Append(yielded,
                         <<cur_subtitle,
                           PySlice(parsed.verses, i - section_lines_count, i)>>))
         ELSE SectionLoop(parsed, i + 1, cur_subtitle,
                          section_lines_count + 1, yielded)
    ELSE Append(yielded,
                <<cur_subtitle,
                  PySlice(parsed.verses, (i - 1) - section_lines_count + 1,
                          Len(parsed.verses))>>)

\* A variant of get_section_lines without the yield after the loop.
get_section_lines_no_last(parsed) ==
    LET yielded == SectionLoop(parsed, 0, parsed.subtitles[1], 0, <<>>)
    IN  SubSeq(yielded, 1, Len(yielded) - 1)

\* The generator get_section_lines.
get_section_lines(parsed) ==
    SectionLoop(parsed, 0, parsed.subtitles[1], 0, <<>>)

\* The loop of _poemlines_from_textlines_by_section over the sections.
RECURSIVE SectionBuildLoop(_, _)
SectionBuildLoop(b, sections) ==
    IF sections = <<>> THEN b
    ELSE LET subtitle == Head(sections)[1]
             section_lines == Head(sections)[2]
         IN  SectionBuildLoop(
                Link(b, GroupedLine("PoemSection", b.nodes, section_lines,
                                    b.pred, subtitle, TRUE),
                     <<Len(section_lines), Len(b.nodes) + 1>>),
                Tail(sections))

\* _poemlines_from_textlines_by_section, for at least one verse; the list
\* returned holds (number of lines, node) pairs.
poemlines_from_textlines_by_section(parsed) ==
    SectionBuildLoop(BuilderStart, get_section_lines(parsed))

(***************************************************************************)
(* add_notes.                                                              *)
(***************************************************************************)
\* A variant of choose_media that indexes the media by the note count
\* alone, whatever the step.
choose_media_by_count(a, i, recite_lines, st) ==
    CASE a.media_mode = "BULK" -> a.media
      [] a.media_mode = "ONE_FOR_EACH_NOTE" -> PySlice(a.media, i, i + 1)
      [] a.media_mode = "BY_RECITE_LINES" -> PySlice(a.media, i, i + recite_lines)

\* add_notes.choose_media(i, recite_lines, step), in the call with
\* arguments a.
choose_media(a, i, recite_lines, st) ==
    CASE a.media_mode = "BULK" -> a.media
      [] a.media_mode = "ONE_FOR_EACH_NOTE" ->
            IF a.mode = "BY_SECTION" THEN PySlice(a.media, i, i + 1)
            ELSE PySlice(a.media, i * st, i * st + 1)
      [] a.media_mode = "BY_RECITE_LINES" ->
            IF a.mode = "BY_SECTION" THEN PySlice(a.media, i, i + recite_lines)
            ELSE PySlice(a.media, i * st, i * st + recite_lines)

\* save_whole_poem.format_line, with current the number of the line.
format_line(current, text) ==
    <<"<p id=arlpcg-text-">> \o Str(current) \o <<">">> \o text \o <<"</p>">>

\* save_whole_poem.add_line: the texts the node contributes.
NodeTexts(node) ==
    IF node.cls \in {"Beginning", "SingleLine"}
    THEN <<node.text>> ELSE node.text_lines

\* save_whole_poem's list "lines" for the nodes poemlines (indices into ns).
save_whole_poem(ns, poemlines) ==
    LET texts == Join([j \in 1..Len(poemlines) |-> NodeTexts(ns[poemlines[j]])])
    IN  [j \in 1..Len(texts) |-> format_line(j, texts[j])]

\* The calls of add_notes the model makes: every mode and media mode, a
\* text of 1..MaxLines lines, and windows, group size and step within the
\* bounds.
Calls ==
    [mode : ImportMode,
     text : Texts,
     group_lines : 1..MaxGroup,
     step : 1..MaxStep,
     context_lines : 0..MaxContext,
     recite_lines : 1..MaxRecite,
     media : {MediaList},
     media_mode : MediaImportMode,
     caesura : {<<"*">>},
     title : {<<"T">>},
     tags : {<<"poem">>},
     deck_id : {1},
     note_fields : {NoteFields}]

Init ==
    /\ args \in Calls
    /\ pc = "call"
    /\ nodes = <<>>
    /\ lines = <<>>
    /\ title = args.title
    /\ added = 0
    /\ media_added = 0
    /\ notes = <<>>
    /\ handed = <<>>
    /\ poem = <<>>
    /\ ret = -1
    /\ error = ""

\* mode == ImportMode.CUSTOM, up to the loop: build the chain and sample it.
BuildCustom ==
    /\ pc = "call"
    /\ args.mode = "CUSTOM"
    /\ LET b == poemlines_from_textlines(args.text, args.group_lines)
       IN  /\ nodes' = b.nodes
           /\ lines' = SliceStep(b.lines, args.step)
    /\ pc' = "loop"
    /\ UNCHANGED <<args, title, added, media_added, notes, handed, poem, ret,
                   error>>

\* mode == ImportMode.AUTOMATIC, up to the loop: parse, take the title from
\* the text, build the chain and sample it.
BuildAutomatic ==
    /\ pc = "call"
    /\ args.mode = "AUTOMATIC"
    /\ LET parsed == automatic_parse_text(args.text, args.caesura)
           b == poemlines_from_textlines_automatic(parsed, args.group_lines)
       IN  /\ title' = parsed.title
           /\ nodes' = b.nodes
           /\ lines' = SliceStep(b.lines, args.step)
    /\ pc' = "loop"
    /\ UNCHANGED <<args, added, media_added, notes, handed, poem, ret, error>>

\* mode == ImportMode.BY_SECTION, up to the loop, for a text with a verse.
BuildBySection ==
    /\ pc = "call"
    /\ args.mode = "BY_SECTION"
    /\ LET parsed == automatic_parse_text(args.text, args.caesura)
       IN  /\ parsed.verses # <<>>
           /\ title' = parsed.title
           /\ LET b == poemlines_from_textlines_by_section(parsed)
              IN  /\ nodes' = b.nodes
                  /\ lines' = b.lines
    /\ media_added' = 0
    /\ pc' = "loop"
    /\ UNCHANGED <<args, added, notes, handed, poem, ret, error>>

\* The same for a text with no verse: get_section_lines reads subtitles[0]
\* of an empty list, and the IndexError leaves add_notes.
BuildBySectionRaises ==
    /\ pc = "call"
    /\ args.mode = "BY_SECTION"
    /\ LET parsed == automatic_parse_text(args.text, args.caesura)
       IN  /\ parsed.verses = <<>>
           /\ title' = parsed.title
    /\ nodes' = <<Beginning(BeginningLine, 1)>>
    /\ error' = "IndexError"
    /\ pc' = "raised"
    /\ UNCHANGED <<args, lines, added, media_added, notes, handed, poem, ret>>

\* A variant of that turn that puts the new note in front of the notes of
\* the collection.
AddNote_in_front ==
    /\ pc = "loop"
    /\ args.mode \in {"CUSTOM", "AUTOMATIC"}
    /\ added < Len(lines)
    /\ MissingField(nodes, lines[added + 1], args.note_fields,
                    args.recite_lines) = ""
    /\ LET line == lines[added + 1]
           n == populate_note(nodes, line, note_constructor, title, args.tags,
                    args.context_lines, args.recite_lines, args.deck_id,
                    args.step,
                    choose_media(args, added, args.recite_lines, args.step))
       IN  notes' = <<n>> \o notes
    /\ added' = added + 1
    /\ UNCHANGED <<args, pc, nodes, lines, title, media_added, handed, poem,
                   ret, error>>

\* One turn of the loop in Custom or Automatic mode: make a note, fill it
\* from the next sampled node, add it to the collection.
AddNote ==
    /\ pc = "loop"
    /\ args.mode \in {"CUSTOM", "AUTOMATIC"}
    /\ added < Len(lines)
    /\ MissingField(nodes, lines[added + 1], args.note_fields,
                    args.recite_lines) = ""
    /\ LET line == lines[added + 1]
           n == populate_note(nodes, line, note_constructor, title, args.tags,
                    args.context_lines, args.recite_lines, args.deck_id,
                    args.step,
                    choose_media(args, added, args.recite_lines, args.step))
       IN  notes' = Append(notes, n)
    /\ added' = added + 1
    /\ UNCHANGED <<args, pc, nodes, lines, title, media_added, handed, poem,
                   ret, error>>

\* A variant of the By-section turn that advances the media index by one
\* per note instead of by the number of files the note took.
AddSectionNote_counting ==
    /\ pc = "loop"
    /\ args.mode = "BY_SECTION"
    /\ added < Len(lines)
    /\ MissingField(nodes, lines[added + 1][2], args.note_fields,
                    lines[added + 1][1]) = ""
    /\ LET section_lines == lines[added + 1][1]
           line == lines[added + 1][2]
           note_media == choose_media(args, media_added, section_lines, 1)
           n == populate_note(nodes, line, note_constructor, title, args.tags,
                    0, section_lines, args.deck_id, 1, note_media)
       IN  /\ media_added' = media_added + 1
           /\ notes' = Append(notes, n)
    /\ added' = added + 1
    /\ UNCHANGED <<args, pc, nodes, lines, title, handed, poem, ret, error>>

\* One turn of the loop in By-section mode.
AddSectionNote ==
    /\ pc = "loop"
    /\ args.mode = "BY_SECTION"
    /\ added < Len(lines)
    /\ MissingField(nodes, lines[added + 1][2], args.note_fields,
                    lines[added + 1][1]) = ""
    /\ LET section_lines == lines[added + 1][1]
           line == lines[added + 1][2]
           note_media == choose_media(args, media_added, section_lines, 1)
           n == populate_note(nodes, line, note_constructor, title, args.tags,
                    0, section_lines, args.deck_id, 1, note_media)
       IN  /\ media_added' = media_added + Len(note_media)
           /\ notes' = Append(notes, n)
    /\ added' = added + 1
    /\ UNCHANGED <<args, pc, nodes, lines, title, handed, poem, ret, error>>

\* A variant of the failing turn that adds the note to the collection
\* before the error leaves add_notes.
AddSectionNoteRaises_registers ==
    /\ pc = "loop"
    /\ args.mode = "BY_SECTION"
    /\ added < Len(lines)
    /\ LET field == MissingField(nodes, lines[added + 1][2], args.note_fields,
                                 lines[added + 1][1])
       IN  /\ field # ""
           /\ error' = KeyErrorOf[field]
    /\ notes' = Append(notes, note_constructor)
    /\ pc' = "raised"
    /\ UNCHANGED <<args, nodes, lines, title, added, media_added, handed,
                   poem, ret>>

\* A turn of the loop in Custom or Automatic mode in which the note lacks a
\* field populate_note assigns: the KeyError leaves add_notes before
\* col.addNote(n).
AddNoteRaises ==
    /\ pc = "loop"
    /\ args.mode \in {"CUSTOM", "AUTOMATIC"}
    /\ added < Len(lines)
    /\ LET field == MissingField(nodes, lines[added + 1], args.note_fields,
                                 args.recite_lines)
       IN  /\ field # ""
           /\ error' = KeyErrorOf[field]
    /\ pc' = "raised"
    /\ UNCHANGED <<args, nodes, lines, title, added, media_added, notes,
                   handed, poem, ret>>

\* The same in By-section mode; media_added has been advanced by then.
AddSectionNoteRaises ==
    /\ pc = "loop"
    /\ args.mode = "BY_SECTION"
    /\ added < Len(lines)
    /\ LET section_lines == lines[added + 1][1]
           field == MissingField(nodes, lines[added + 1][2], args.note_fields,
                                 section_lines)
       IN  /\ field # ""
           /\ error' = KeyErrorOf[field]
           /\ media_added' = media_added
                 + Len(choose_media(args, media_added, section_lines, 1))
    /\ pc' = "raised"
    /\ UNCHANGED <<args, nodes, lines, title, added, notes, handed, poem,
                   ret>>

\* After the loop: By-section mode maps its pairs to their nodes; then
\* save_whole_poem(lines, title) and return added.
Finish ==
    /\ pc = "loop"
    /\ added = Len(lines)
    /\ LET poemlines == IF args.mode = "BY_SECTION"
                        THEN [j \in 1..Len(lines) |-> lines[j][2]]
                        ELSE lines
       IN  /\ lines' = poemlines
           /\ handed' = poemlines
           /\ poem' = save_whole_poem(nodes, poemlines)
    /\ ret' = added
    /\ pc' = "done"
    /\ UNCHANGED <<args, nodes, title, added, media_added, notes, error>>

Next ==
    \/ BuildCustom
    \/ BuildAutomatic
    \/ BuildBySection
    \/ BuildBySectionRaises
    \/ AddNote
    \/ AddSectionNote
    \/ Finish

Spec == Init /\ [][Next]_vars

(***************************************************************************)
(* Poems with a title line, in the two modes that read one: the first line *)
(* of the text is the title and 1..MaxLines lines follow it.               *)
(***************************************************************************)
TitleLine == <<"T">>

\* Their lines: the pool of the other calls and a second header.
TitledPool == LinePool \cup { <<"G">> }

TitledTexts ==
    { <<TitleLine>> \o t : t \in UNION { [1..n -> TitledPool] : n \in 1..MaxLines } }

\* A media list of three files for these calls.
SectionMedia == << <<"m1">>, <<"m2">>, <<"m3">> >>

\* Automatic mode over every group size, step and window, and By-section
\* mode, which reads none of the three but the step, over every media mode.
TitledCalls ==
    [mode : {"AUTOMATIC"},
     text : TitledTexts,
     group_lines : 1..MaxGroup,
     step : 1..MaxStep,
     context_lines : 0..MaxContext,
     recite_lines : 1..MaxRecite,
     media : {SectionMedia},
     media_mode : {"BULK"},
     caesura : {<<"*">>},
     title : {<<"T">>},
     tags : {<<"poem">>},
     deck_id : {1},
     note_fields : {NoteFields}]
    \cup
    [mode : {"BY_SECTION"},
     text : TitledTexts,
     group_lines : {1},
     step : 1..MaxStep,
     context_lines : {0},
     recite_lines : {1},
     media : {SectionMedia},
     media_mode : MediaImportMode,
     caesura : {<<"*">>},
     title : {<<"T">>},
     tags : {<<"poem">>},
     deck_id : {1},
     note_fields : {NoteFields}]

\* The state at the call of add_notes, for the arguments a.
Called(a) ==
    /\ args = a
    /\ pc = "call"
    /\ nodes = <<>>
    /\ lines = <<>>
    /\ title = a.title
    /\ added = 0
    /\ media_added = 0
    /\ notes = <<>>
    /\ handed = <<>>
    /\ poem = <<>>
    /\ ret = -1
    /\ error = ""

InitTitled == \E a \in TitledCalls : Called(a)

NextTitled ==
    \/ BuildAutomatic
    \/ BuildBySection
    \/ BuildBySectionRaises
    \/ AddNote
    \/ AddSectionNote
    \/ Finish

SpecTitled == InitTitled /\ [][NextTitled]_vars

(***************************************************************************)
(* Calls with a note type that lacks one of the fields, or none.           *)
(***************************************************************************)
FieldSets == {NoteFields} \cup {NoteFields \ {f} : f \in NoteFields}

KeyErrorCalls ==
    [mode : {"CUSTOM", "AUTOMATIC"},
     text : Texts,
     group_lines : 1..MaxGroup,
     step : 1..MaxStep,
     context_lines : {0},
     recite_lines : 1..MaxRecite,
     media : {MediaList},
     media_mode : {"BULK"},
     caesura : {<<"*">>},
     title : {<<"T">>},
     tags : {<<"poem">>},
     deck_id : {1},
     note_fields : FieldSets]
    \cup
    [mode : {"BY_SECTION"},
     text : TitledTexts,
     group_lines : {1},
     step : {1},
     context_lines : {0},
     recite_lines : {1},
     media : {MediaList},
     media_mode : {"BY_RECITE_LINES"},
     caesura : {<<"*">>},
     title : {<<"T">>},
     tags : {<<"poem">>},
     deck_id : {1},
     note_fields : FieldSets]

InitKeyError == \E a \in KeyErrorCalls : Called(a)

NextKeyError ==
    \/ BuildCustom
    \/ BuildAutomatic
    \/ BuildBySection
    \/ BuildBySectionRaises
    \/ AddNote
    \/ AddNoteRaises
    \/ AddSectionNote
    \/ AddSectionNoteRaises
    \/ Finish

SpecKeyError == InitKeyError /\ [][NextKeyError]_vars

(***************************************************************************)
(* Calls in Custom and Automatic mode whose recitation window may be 0.    *)
(***************************************************************************)
ReciteCalls ==
    [mode : {"CUSTOM", "AUTOMATIC"},
     text : Texts,
     group_lines : 1..MaxGroup,
     step : 1..MaxStep,
     context_lines : {0},
     recite_lines : 0..MaxRecite,
     media : {MediaList},
     media_mode : {"BULK"},
     caesura : {<<"*">>},
     title : {<<"T">>},
     tags : {<<"poem">>},
     deck_id : {1},
     note_fields : {NoteFields}]

InitRecite == \E a \in ReciteCalls : Called(a)

NextRecite == BuildCustom \/ BuildAutomatic \/ AddNote \/ Finish

SpecRecite == InitRecite /\ [][NextRecite]_vars

(***************************************************************************)
(* cleanse_text.  The raw text is a string of single characters; the       *)
(* markup the function writes (<indent>, the span that replaces it) and    *)
(* the two markers of the config are one token each.                       *)
(***************************************************************************)
MaxRaw == 5

RawChars == {"x", "y", " ", "\t", "#", "\n"}

RawStrings == UNION { [1..n -> RawChars] : n \in 0..MaxRaw }

\* The configs: both markers set, and both empty.
CleanseConfigs ==
    { [endOfStanzaMarker |-> <<"Y">>, endOfTextMarker |-> <<"X">>],
      [endOfStanzaMarker |-> EmptyStr, endOfTextMarker |-> EmptyStr] }

\* What \s and str.strip() take for whitespace, within a line.
IsSpace(c) == c \in {" ", "\t"}

\* string.splitlines(): a line ends at each "\n"; what follows the last
\* one is a line when it is not empty.
RECURSIVE SplitLoop(_, _, _, _)
SplitLoop(string, i, cur, out) ==
    IF i > Len(string)
    THEN IF cur = EmptyStr THEN out ELSE Append(out, cur)
    ELSE IF string[i] = "\n"
         THEN SplitLoop(string, i + 1, EmptyStr, Append(out, cur))
         ELSE SplitLoop(string, i + 1, Append(cur, string[i]), out)

splitlines(string) == SplitLoop(string, 1, EmptyStr, <<>>)

\* The number of whitespace characters a line begins with, and ends with.
LeadingSpace(line) ==
    Cardinality({n \in 1..Len(line) : \A j \in 1..n : IsSpace(line[j])})

TrailingSpace(line) ==
    Cardinality({n \in 1..Len(line) :
                    \A j \in (Len(line) - n + 1)..Len(line) : IsSpace(line[j])})

\* re.sub(r'^[ \t]+', r'<indent>', i)
IndentSub(line) ==
    IF LeadingSpace(line) = 0 THEN line
    ELSE <<"<indent>">> \o SubSeq(line, LeadingSpace(line) + 1, Len(line))

\* A variant of strip() that leaves the end of the line alone: lstrip().
Strip_left(line) == SubSeq(line, LeadingSpace(line) + 1, Len(line))

\* i.strip()
Strip(line) ==
    IF LeadingSpace(line) = Len(line) THEN EmptyStr
    ELSE SubSeq(line, LeadingSpace(line) + 1, Len(line) - TrailingSpace(line))

\* i.startswith("#")
StartsWithHash(line) == Len(line) > 0 /\ line[1] = "#"

\* re.sub(r'\s*\#.*$', '', i): what stands before the first "#" and the
\* whitespace in front of it.
CommentSub(line) ==
    IF \A j \in 1..Len(line) : line[j] # "#" THEN line
    ELSE LET h == CHOOSE j \in 1..Len(line) :
                     line[j] = "#" /\ \A m \in 1..(j - 1) : line[m] # "#"
             before == SubSeq(line, 1, h - 1)
         IN  SubSeq(before, 1, Len(before) - TrailingSpace(before))

\* The loop of _normalize_blank_lines: a line is kept when it or the line
\* before it has something other than whitespace.
RECURSIVE NormalizeLoop(_, _, _, _)
NormalizeLoop(text_lines, i, last_line, new_text) ==
    IF i > Len(text_lines) THEN new_text
    ELSE NormalizeLoop(text_lines, i + 1, text_lines[i],
             IF Truthy(Strip(last_line)) \/ Truthy(Strip(text_lines[i]))
             THEN Append(new_text, text_lines[i]) ELSE new_text)

\* for i in (0, -1): a blank first line is deleted, then a blank last one.
DelFirst(new_text) ==
    IF Truthy(Strip(new_text[1])) THEN new_text ELSE Tail(new_text)

DelLast(new_text) ==
    IF Truthy(Strip(new_text[Len(new_text)])) THEN new_text
    ELSE SubSeq(new_text, 1, Len(new_text) - 1)

\* new_text[0], or new_text[-1] after the deletion, of an empty list.
normalize_raises(text_lines) ==
    LET new_text == NormalizeLoop(text_lines, 1, EmptyStr, <<>>)
    IN  IF new_text = <<>> THEN TRUE ELSE DelFirst(new_text) = <<>>

normalize_blank_lines(text_lines) ==
    DelLast(DelFirst(NormalizeLoop(text_lines, 1, EmptyStr, <<>>)))

\* The lines of the text up to the call of _normalize_blank_lines.
CleanLines(string) ==
    LET text == splitlines(string)
        indented == [i \in 1..Len(text) |-> IndentSub(text[i])]
        kept == SelectSeq(indented, LAMBDA l : ~StartsWithHash(l))
    IN  [i \in 1..Len(kept) |-> CommentSub(Strip(kept[i]))]

\* A variant of the marker loop that ends a stanza at every line but the
\* last.
AddMarkers_every(text, config) ==
    [i \in 1..Len(text) |->
        IF i = Len(text) THEN text[i] \o config.endOfTextMarker
        ELSE text[i] \o config.endOfStanzaMarker]

\* A variant of the marker loop that leaves the last line as it is.
AddMarkers_stanza_only(text, config) ==
    [i \in 1..Len(text) |->
        IF i < Len(text) /\ ~Truthy(Strip(text[i + 1]))
        THEN text[i] \o config.endOfStanzaMarker
        ELSE text[i]]

\* The loop that adds the markers.
AddMarkers(text, config) ==
    [i \in 1..Len(text) |->
        IF i = Len(text) THEN text[i] \o config.endOfTextMarker
        ELSE IF ~Truthy(Strip(text[i + 1]))
             THEN text[i] \o config.endOfStanzaMarker
             ELSE text[i]]

\* re.sub(r'^<indent>(.*)$', r'<span class="indent">\1</span>', i)
SpanSub(line) ==
    IF Len(line) > 0 /\ line[1] = "<indent>"
    THEN <<"<span class=indent>">> \o Tail(line) \o <<"</span>">>
    ELSE line

cleanse_raises(string) == normalize_raises(CleanLines(string))

cleanse_text(string, config) ==
    LET text == AddMarkers(normalize_blank_lines(CleanLines(string)), config)
        shown == SelectSeq(text, LAMBDA l : Truthy(Strip(l)))
    IN  [i \in 1..Len(shown) |-> SpanSub(shown[i])]

\* "\n".join(ls)
RECURSIVE JoinLines(_)
JoinLines(ls) ==
    IF ls = <<>> THEN EmptyStr
    ELSE IF Len(ls) = 1 THEN ls[1]
    ELSE ls[1] \o <<"\n">> \o JoinLines(Tail(ls))

\* A call of cleanse_text; nothing of add_notes is live.
InitCleanse ==
    /\ args \in [string : RawStrings, config : CleanseConfigs,
                 rerun : {FALSE}, first : {<<>>}]
    /\ pc = "call"
    /\ ret = <<>>
    /\ error = ""
    /\ nodes = <<>> /\ lines = <<>> /\ title = EmptyStr /\ added = 0
    /\ media_added = 0 /\ notes = <<>> /\ handed = <<>> /\ poem = <<>>

CleanseText ==
    /\ pc = "call"
    /\ ~cleanse_raises(args.string)
    /\ ret' = cleanse_text(args.string, args.config)
    /\ pc' = "done"
    /\ UNCHANGED <<args, nodes, lines, title, added, media_added, notes,
                   handed, poem, error>>

CleanseTextRaises ==
    /\ pc = "call"
    /\ cleanse_raises(args.string)
    /\ error' = "IndexError"
    /\ pc' = "raised"
    /\ UNCHANGED <<args, nodes, lines, title, added, media_added, notes,
                   handed, poem, ret>>

\* The caller hands the lines it got, joined by newlines, to cleanse_text
\* once more, with the same config.
Recleanse ==
    /\ pc = "done"
    /\ ~args.rerun
    /\ args' = [string |-> JoinLines(ret), config |-> args.config,
                rerun |-> TRUE, first |-> ret]
    /\ pc' = "call"
    /\ ret' = <<>>
    /\ UNCHANGED <<nodes, lines, title, added, media_added, notes, handed,
                   poem, error>>

NextCleanse == CleanseText \/ CleanseTextRaises \/ Recleanse

SpecCleanse == InitCleanse /\ [][NextCleanse]_vars

(***************************************************************************)
(* automatic_parse_text called on its own, with a list of lines (the       *)
(* field text of the arguments) and a caesura.                             *)
(***************************************************************************)
ParsePool == { <<"a", "*">>, <<"*", "*", "b">>, <<"H">>, <<"/", "c">> }

ParseTexts == UNION { [1..n -> ParsePool] : n \in 0..MaxLines }

\* The caesuras: one character, two, another one, and the empty string.
Caesuras == { <<"*">>, <<"*", "*">>, <<"/">>, EmptyStr }

InitParse ==
    /\ args \in [text : ParseTexts, caesura : Caesuras]
    /\ pc = "call"
    /\ ret = <<>>
    /\ error = ""
    /\ nodes = <<>> /\ lines = <<>> /\ title = EmptyStr /\ added = 0
    /\ media_added = 0 /\ notes = <<>> /\ handed = <<>> /\ poem = <<>>

ParseText ==
    /\ pc = "call"
    /\ args.text # <<>>
    /\ ret' = automatic_parse_text(args.text, args.caesura)
    /\ pc' = "done"
    /\ UNCHANGED <<args, nodes, lines, title, added, media_added, notes,
                   handed, poem, error>>

\* lines[0] of an empty list.
ParseTextRaises ==
    /\ pc = "call"
    /\ args.text = <<>>
    /\ error' = "IndexError"
    /\ pc' = "raised"
    /\ UNCHANGED <<args, nodes, lines, title, added, media_added, notes,
                   handed, poem, ret>>

NextParse == ParseText \/ ParseTextRaises

SpecParse == InitParse /\ [][NextParse]_vars

(***************************************************************************)
(* What the properties below are stated with.  None of it is taken from    *)
(* the code: the poem is read off the arguments of the call.               *)
(***************************************************************************)
\* The least m with m * b >= a: ceil(a / b).
CeilOf(a, b) == CHOOSE m \in 0..a : m * b >= a /\ \A j \in 0..(m - 1) : j * b < a

Min2(a, b) == IF a < b THEN a ELSE b

Max2(a, b) == IF a > b THEN a ELSE b

CustomOrAutomatic == args.mode \in {"CUSTOM", "AUTOMATIC"}

\* The indices, in the text, of the verses of Automatic and By-section mode:
\* the lines after the first that hold the caesura.
VerseIndices == {i \in 2..Len(args.text) : Contains(args.caesura, args.text[i])}

\* The subtitle of the verse at index i of the text: the nearest line before
\* it, after the title, without the caesura; '' when there is none.
SubtitleAt(i) ==
    LET hs == {j \in 2..(i - 1) : ~Contains(args.caesura, args.text[j])}
    IN  IF hs = {} THEN EmptyStr
        ELSE args.text[CHOOSE j \in hs : \A h \in hs : h <= j]

\* The verses, in order.
Verses == SelectSeq(Tail(args.text), LAMBDA l : Contains(args.caesura, l))

\* The number of maximal runs of consecutive verses with the same subtitle.
SubtitleRuns ==
    Cardinality({i \in VerseIndices :
        \/ \A j \in VerseIndices : j >= i
        \/ LET prev == CHOOSE j \in VerseIndices :
                          j < i /\ \A h \in VerseIndices : h < i => h <= j
           IN  SubtitleAt(prev) # SubtitleAt(i)})

\* The physical lines of the poem: the text in Custom mode, the verses in
\* the other modes.
PoemLines == IF args.mode = "CUSTOM" THEN args.text ELSE Verses

\* The number of positions of the chain in Custom and Automatic mode.
NumPositions == CeilOf(Len(PoemLines), args.group_lines)

\* The physical lines of position p when the poem pl is cut in groups of
\* g lines; position 0 is the sentinel with its placeholder.
PositionLinesOf(pl, g, p) ==
    IF p = 0 THEN <<BeginningLine>>
    ELSE SubSeq(pl, (p - 1) * g + 1, Min2(p * g, Len(pl)))

\* The physical lines of positions lo..hi of it, in order.
RangeLinesOf(pl, g, lo, hi) ==
    Join([j \in 1..(hi - lo + 1) |-> PositionLinesOf(pl, g, lo + j - 1)])

\* The same for the poem of the call, in Custom and Automatic mode.
PositionLines(p) == PositionLinesOf(PoemLines, args.group_lines, p)

RangeLines(lo, hi) == RangeLinesOf(PoemLines, args.group_lines, lo, hi)

\* The node at position p: p successor links after the sentinel.
RECURSIVE NodeAt(_)
NodeAt(p) == IF p = 0 THEN 1 ELSE nodes[NodeAt(p - 1)].successor

\* The chain has been built.
Built == pc \in {"loop", "done"}

\* The builder has just returned the chain; no later step of add_notes
\* assigns to a node.
JustBuilt == pc = "loop" /\ added = 0

\* A list of lines as a field shows it.
Shown(ls) == Join([j \in 1..Len(ls) |-> P(ls[j])])

(***************************************************************************)
(* C1: in Custom mode, for a text of n >= 1 lines, group_lines N >= 1 and  *)
(* step >= 1, add_notes returns ceil(ceil(n / N) / step).                  *)
(***************************************************************************)
C1_CustomCount ==
    (pc = "done" /\ args.mode = "CUSTOM") =>
        ret = CeilOf(CeilOf(Len(args.text), args.group_lines), args.step)

\* add_notes returned 1 for 3 lines in groups of 2 sampled at step 2: both
\* quotients are rounded up.
C1_Witness ==
    /\ pc = "done" /\ args.mode = "CUSTOM" /\ Len(args.text) = 3
    /\ args.group_lines = 2 /\ args.step = 2 /\ ret = 1 /\ Len(notes) = 1

(***************************************************************************)
(* C2 as stated: in Automatic mode with group_lines = 1 the number of      *)
(* notes is ceil(n / step) for the n lines of the list handed to           *)
(* add_notes.                                                              *)
(***************************************************************************)
C2_CountsEveryLine ==
    (pc = "done" /\ args.mode = "AUTOMATIC" /\ args.group_lines = 1) =>
        Len(notes) = CeilOf(Len(args.text), args.step)

(***************************************************************************)
(* C2 amended: in Automatic mode with group_lines = 1 the number of notes  *)
(* is ceil(v / step) for the v verses of the list, the lines after the     *)
(* first that hold the caesura; add_notes returns that number.             *)
(***************************************************************************)
C2_AutomaticCount ==
    (pc = "done" /\ args.mode = "AUTOMATIC" /\ args.group_lines = 1) =>
        /\ Len(notes) = CeilOf(Cardinality(VerseIndices), args.step)
        /\ ret = Len(notes)

\* Four lines, of which the title holds the caesura, one is a header and
\* two are verses: one note at step 2.
C2_Witness ==
    /\ pc = "done" /\ args.mode = "AUTOMATIC" /\ args.group_lines = 1
    /\ Len(args.text) = 4 /\ Contains(args.caesura, args.text[1])
    /\ Cardinality(VerseIndices) = 2 /\ args.step = 2 /\ Len(notes) = 1

(***************************************************************************)
(* C3: in By-section mode the number of notes is the number of maximal     *)
(* runs of consecutive verses with the same subtitle, whatever the step    *)
(* (a text without a verse has no run and gets no note).                   *)
(***************************************************************************)
C3_BySectionCount ==
    (args.mode = "BY_SECTION" /\ pc \in {"done", "raised"}) =>
        /\ Len(notes) = SubtitleRuns
        /\ pc = "done" => ret = SubtitleRuns

\* Two runs (no subtitle, then one), with a step of 2.
C3_Witness ==
    /\ pc = "done" /\ args.mode = "BY_SECTION" /\ args.step = 2
    /\ SubtitleRuns = 2 /\ Len(notes) = 2 /\ Cardinality(VerseIndices) = 2

PositionOf(n) == CHOOSE p \in 0..(Len(nodes) - 1) : NodeAt(p) = n

\* No two lines of the poem are equal.
DistinctLines ==
    \A i, j \in 1..Len(PoemLines) : PoemLines[i] = PoemLines[j] => i = j

C6_RecitationWindow ==
    (JustBuilt /\ CustomOrAutomatic) =>
        LET pl == PoemLines
            g == args.group_lines
            np == CeilOf(Len(pl), g)
        IN  /\ error = ""
            /\ \A p \in 1..np :
                  LET n == NodeAt(p)
                  IN  \A k \in 1..(MaxRecite + 1) :
                          get_text(nodes, n, k) =
                              RangeLinesOf(pl, g, p, p + Min2(k, np - p + 1) - 1)

\* A note whose recitation was cut short by the end of the chain: the last
\* node, asked for two positions, recites its own text only.
C6_Witness ==
    /\ Built /\ CustomOrAutomatic /\ args.recite_lines = 2 /\ NumPositions = 3
    /\ args.step = 1 /\ Len(notes) = 3
    /\ notes[3].text = Shown(PositionLines(3))
    /\ notes[1].text = Shown(PositionLines(1) \o PositionLines(2))

(***************************************************************************)
(* C7: a note has no prompt exactly when the recitation in its text field  *)
(* has one line; otherwise the prompt shows the number of lines in that    *)
(* field, which may differ from recite_lines.                              *)
(***************************************************************************)
\* The number of lines a field shows.
ShownCount(field) == Cardinality({i \in 1..Len(field) : field[i] = "<p>"})

C7_Prompt ==
    \A i \in 1..Len(notes) :
        LET produced == ShownCount(notes[i].text)
        IN  /\ produced >= 1
            /\ (notes[i].prompt = EmptyStr) <=> (produced = 1)
            /\ produced # 1 =>
                  notes[i].prompt = <<"[...">> \o Str(produced) \o <<"]">>

\* With recite_lines = 2 and three lines in groups of 2, the first note
\* recites 3 lines and says so, and the last, a group of one line, has no
\* prompt.
C7_Witness ==
    /\ pc = "done" /\ args.mode = "CUSTOM" /\ args.recite_lines = 2
    /\ args.group_lines = 2 /\ Len(args.text) = 3 /\ args.step = 1
    /\ notes[1].prompt = <<"[...", "3", "]">>
    /\ notes[2].prompt = EmptyStr

(***************************************************************************)
(* C8: in Custom and Automatic mode the i-th note (from 0) is made from    *)
(* the node at index i * step of the chain after the sentinel, and its     *)
(* number field is i + 1: the numbers are 1, 2, ..., count.                *)
(***************************************************************************)
C8_Sampling ==
    (Built /\ CustomOrAutomatic) =>
        LET pl == PoemLines
            g == args.group_lines
            np == CeilOf(Len(pl), g)
        IN  \A i \in 0..(Len(notes) - 1) :
                LET p == i * args.step + 1
                IN  /\ p <= np
                    /\ lines[i + 1] = NodeAt(p)
                    /\ notes[i + 1].number = Str(i + 1)
                    /\ notes[i + 1].text =
                          Shown(RangeLinesOf(pl, g, p,
                              p + Min2(args.recite_lines, np - p + 1) - 1))

\* Two notes at step 2 from four single lines: the second is from the
\* third line and is numbered 2.
C8_Witness ==
    /\ pc = "done" /\ CustomOrAutomatic /\ args.step = 2
    /\ args.group_lines = 1 /\ Len(PoemLines) >= 3 /\ Len(notes) = 2
    /\ nodes[lines[2]].seq = 3 /\ notes[2].number = <<"2">>

(***************************************************************************)
(* C9: when add_notes is done, in every mode and for every step, the       *)
(* lines handed to save_whole_poem are the whole poem: every physical      *)
(* line, in order, those of the positions the sampling skipped too.        *)
(***************************************************************************)
C9_WholePoemSaved ==
    pc = "done" =>
        /\ Join([j \in 1..Len(handed) |-> NodeTexts(nodes[handed[j]])]) = PoemLines
        /\ poem = [j \in 1..Len(PoemLines) |-> format_line(j, PoemLines[j])]

(***************************************************************************)
(* C10: in Custom and Automatic mode note i (from 0) gets the whole media  *)
(* list under BULK, the item at index i * step under ONE_FOR_EACH_NOTE and *)
(* the recite_lines items from index i * step under BY_RECITE_LINES; past  *)
(* the end of the list the slice is shorter or empty, and nothing raises.  *)
(***************************************************************************)
\* The items of the media list at indices lo .. lo + count - 1 (from 0)
\* that exist.
MediaItems(lo, count) ==
    LET have == Max2(0, Min2(count, Len(args.media) - lo))
    IN  [j \in 1..have |-> args.media[lo + j]]

C10_Media ==
    CustomOrAutomatic =>
        /\ error = ""
        /\ \A i \in 0..(Len(notes) - 1) :
              notes[i + 1].media = Join(
                  CASE args.media_mode = "BULK" -> args.media
                    [] args.media_mode = "ONE_FOR_EACH_NOTE" ->
                          MediaItems(i * args.step, 1)
                    [] args.media_mode = "BY_RECITE_LINES" ->
                          MediaItems(i * args.step, args.recite_lines))

\* A second note at step 2 whose slice starts at the end of the list and is
\* empty, after a first note with a full slice.
C10_Witness ==
    /\ pc = "done" /\ CustomOrAutomatic /\ args.step = 2
    /\ args.media_mode = "BY_RECITE_LINES" /\ args.recite_lines = 2
    /\ Len(notes) = 2 /\ Len(args.media) = 2
    /\ notes[1].media = Join(args.media) /\ notes[2].media = EmptyStr

(***************************************************************************)
(* C11: in By-section mode the note of the j-th section (from 0) gets the  *)
(* media item at index j under ONE_FOR_EACH_NOTE, and under                *)
(* BY_RECITE_LINES the n_j items starting at the sum of the line counts of *)
(* the earlier sections, n_j being the number of lines of the section; the *)
(* media of the notes, in note order, are then a prefix of the media list. *)
(***************************************************************************)
\* The verses that start a section: the first verse, and every verse whose
\* subtitle differs from that of the verse before it.
SectionStarts ==
    {i \in VerseIndices :
        \/ \A j \in VerseIndices : j >= i
        \/ LET prev == CHOOSE j \in VerseIndices :
                          j < i /\ \A h \in VerseIndices : h < i => h <= j
           IN  SubtitleAt(prev) # SubtitleAt(i)}

\* The index in the text of the first verse of section j (from 1).
SectionStart(j) ==
    LET starts == SectionStarts
    IN  CHOOSE i \in starts : Cardinality({h \in starts : h < i}) = j - 1

\* The verses of section j, as indices in the text.
SectionVerses(j) ==
    LET starts == SectionStarts
        first == SectionStart(j)
    IN  {i \in VerseIndices :
            /\ i >= first
            /\ \A h \in starts : h > first => i < h}

\* The number of lines of section j, and of the sections before it.
SectionCount(j) == Cardinality(SectionVerses(j))

LinesBefore(j) ==
    Cardinality({i \in VerseIndices : i < SectionStart(j)})

C11_SectionMedia ==
    (args.mode = "BY_SECTION" /\ Built) =>
        /\ \A j \in 1..Len(notes) :
              notes[j].media = Join(
                  CASE args.media_mode = "BULK" -> args.media
                    [] args.media_mode = "ONE_FOR_EACH_NOTE" ->
                          MediaItems(j - 1, 1)
                    [] args.media_mode = "BY_RECITE_LINES" ->
                          MediaItems(LinesBefore(j), SectionCount(j)))
        /\ args.media_mode # "BULK" =>
              \E m \in 0..Len(args.media) :
                  Join([j \in 1..Len(notes) |-> notes[j].media]) =
                      Join(SubSeq(args.media, 1, m))

\* A section of two lines took the first two files and the section after
\* it took the third: the slice starts at the line count, not at the note
\* count.
C11_Witness ==
    /\ pc = "done" /\ args.mode = "BY_SECTION"
    /\ args.media_mode = "BY_RECITE_LINES" /\ Len(notes) = 2
    /\ SectionCount(1) = 2 /\ SectionCount(2) = 1
    /\ notes[1].media = Join(SubSeq(args.media, 1, 2))
    /\ notes[2].media = Join(SubSeq(args.media, 3, 3))

(***************************************************************************)
(* What the properties of cleanse_text are stated with: the raw string of  *)
(* the first call, read character by character.                            *)
(***************************************************************************)
\* cleanse_text has been called on the raw text, and has returned.
FirstRun == ~args.rerun /\ pc \in {"done", "raised"}

Cleansed == ~args.rerun /\ pc = "done"

\* The index at which the line of the character at i starts, and the index
\* of the newline that ends it (one past the string when none does).
LineStart(str, i) ==
    CHOOSE j \in 1..i :
        /\ j = 1 \/ str[j - 1] = "\n"
        /\ \A m \in j..(i - 1) : str[m] # "\n"

LineEnd(str, i) ==
    CHOOSE j \in i..(Len(str) + 1) :
        /\ j = Len(str) + 1 \/ str[j] = "\n"
        /\ \A m \in i..(j - 1) : str[m] # "\n"

\* The characters of str at the indices in keep, in order.
Keeping(str, keep) ==
    LET idx == SelectSeq([i \in 1..Len(str) |-> i], LAMBDA i : i \in keep)
    IN  [n \in 1..Len(idx) |-> str[idx[n]]]

\* The line is a run of spaces and tabs, at least one.
InWhitespaceLine(str, i) ==
    /\ LineStart(str, i) < LineEnd(str, i)
    /\ \A m \in LineStart(str, i)..(LineEnd(str, i) - 1) : IsSpace(str[m])

\* The first character of the line that is not a space or a tab is "#".
InCommentLine(str, i) ==
    \E h \in LineStart(str, i)..(LineEnd(str, i) - 1) :
        /\ str[h] = "#"
        /\ \A m \in LineStart(str, i)..(h - 1) : IsSpace(str[m])

\* The character is in the trailing comment of its line or in the
\* whitespace before it.
InTrailingComment(str, i) ==
    /\ str[i] # "\n"
    /\ \E h \in LineStart(str, i)..(LineEnd(str, i) - 1) :
          /\ str[h] = "#"
          /\ i >= h \/ \A m \in i..(h - 1) : IsSpace(str[m])

\* The lines of the raw text, and those among them that are neither empty
\* nor a comment from their first column on.
RawLines == splitlines(args.string)

KeptLines == {i \in 1..Len(RawLines) :
                 RawLines[i] # EmptyStr /\ RawLines[i][1] # "#"}

KeptLine(j) ==
    CHOOSE i \in KeptLines : Cardinality({h \in KeptLines : h < i}) = j - 1

\* The markers a line of the result holds, and the line without the span
\* around it.
MarkersOf(line) == SelectSeq(line, LAMBDA c : c \in {"X", "Y"})

Unwrapped(line) ==
    SelectSeq(line, LAMBDA c : c \notin {"<span class=indent>", "</span>"})

Blanked(str) ==
    Keeping(str, {i \in 1..Len(str) :
                     str[i] = "\n" \/ ~InWhitespaceLine(str, i)})

C13_WhitespaceOnlyAsEmpty ==
    FirstRun =>
        LET b == Blanked(args.string)
        IN  /\ pc = "raised" <=> cleanse_raises(b)
            /\ pc = "done" => ret = cleanse_text(b, args.config)

(***************************************************************************)
(* C14: cleanse_text drops every line whose first character other than     *)
(* space and tab is "#", and in every other line the comment from the      *)
(* first "#" on with the whitespace before it: the result is that of the   *)
(* text with those lines and those comments taken out.                     *)
(***************************************************************************)
\* The raw text without its comment lines (each with the newline that ends
\* it) and without the trailing comments of its other lines.
Uncommented(str) ==
    Keeping(str, {i \in 1..Len(str) :
                     /\ ~InCommentLine(str, i)
                     /\ ~InTrailingComment(str, i)})

C14_CommentLinesDropped ==
    FirstRun =>
        LET u == Uncommented(args.string)
        IN  /\ pc = "raised" <=> cleanse_raises(u)
            /\ pc = "done" => ret = cleanse_text(u, args.config)

(***************************************************************************)
(* C15 as stated: cleanse_text run again, with the same config, on its own *)
(* result joined by newlines returns that result unchanged.                *)
(***************************************************************************)
\* The second call has been made, on the result of the first.
Rerun == args.rerun /\ pc \in {"done", "raised"}

C15_Idempotent ==
    Rerun => (pc = "done" /\ ret = args.first)

(***************************************************************************)
(* C15 amended: the second run returns the lines of the first, none of     *)
(* them with a further end-of-stanza marker, and all of them unchanged but *)
(* the last, which gets the end-of-text marker once more; so the result    *)
(* is unchanged exactly when that marker is empty.                         *)
(***************************************************************************)
C15_RerunMarksLastLine ==
    Rerun =>
        /\ pc = "done"
        /\ Len(ret) = Len(args.first)
        /\ \A j \in 1..Len(ret) :
              ret[j] = IF j = Len(ret)
                       THEN args.first[j] \o args.config.endOfTextMarker
                       ELSE args.first[j]

\* Two stanzas, cleansed twice: the stanza marker stays single, the text
\* marker is doubled.
C15_Witness ==
    /\ Rerun
    /\ args.first = << <<"x", "Y">>, <<"y", "X">> >>
    /\ ret = << <<"x", "Y">>, <<"y", "X", "X">> >>

(***************************************************************************)
(* C16 as stated: for a text with no comment and no blank line, and with   *)
(* both markers empty, cleanse_text returns the lines of the text, each    *)
(* with its leading and trailing whitespace trimmed and nothing else       *)
(* changed.                                                                *)
(***************************************************************************)
\* The line without the whitespace at its two ends.
Trimmed(line) ==
    LET solid == {i \in 1..Len(line) : ~IsSpace(line[i])}
    IN  IF solid = {} THEN EmptyStr
        ELSE SubSeq(line, CHOOSE i \in solid : \A h \in solid : i <= h,
                          CHOOSE i \in solid : \A h \in solid : i >= h)

\* The raw text has a line, no "#", and something other than whitespace in
\* every line; both markers are empty.
PlainPoem ==
    /\ ~args.rerun
    /\ args.config.endOfTextMarker = EmptyStr
    /\ args.config.endOfStanzaMarker = EmptyStr
    /\ Len(RawLines) >= 1
    /\ \A i \in 1..Len(args.string) : args.string[i] # "#"
    /\ \A i \in 1..Len(RawLines) : Trimmed(RawLines[i]) # EmptyStr

C16_RoundTrip ==
    (PlainPoem /\ pc \in {"done", "raised"}) =>
        /\ pc = "done"
        /\ ret = [i \in 1..Len(RawLines) |-> Trimmed(RawLines[i])]

(***************************************************************************)
(* C16 amended: for such a text cleanse_text returns one line per line of  *)
(* the text, in order: the trimmed line for a line that starts in the      *)
(* first column, and the trimmed line inside the indent span for a line    *)
(* that starts with a space or a tab.                                      *)
(***************************************************************************)
C16_RoundTripIndent ==
    (PlainPoem /\ pc \in {"done", "raised"}) =>
        /\ pc = "done"
        /\ ret = [i \in 1..Len(RawLines) |->
                     IF IsSpace(RawLines[i][1])
                     THEN <<"<span class=indent>">> \o Trimmed(RawLines[i])
                              \o <<"</span>">>
                     ELSE Trimmed(RawLines[i])]

\* An indented line and a line with a space at its end.
C16_Witness ==
    /\ PlainPoem /\ pc = "done"
    /\ args.string = <<" ", "x", "\n", "y", " ">>
    /\ ret = << <<"<span class=indent>", "x", "</span>">>, <<"y">> >>

(***************************************************************************)
(* C17: for a list with a first line and any caesura, automatic_parse_text *)
(* returns the first line as the title, as verses the lines after the      *)
(* first that hold the caesura, in order, and for each verse as subtitle   *)
(* the nearest line before it, after the title, that lacks the caesura,    *)
(* or '' when there is none; no line that lacks the caesura is a verse.    *)
(***************************************************************************)
\* The index in the text of the n-th verse (from 1).
VerseIndex(n) ==
    CHOOSE i \in VerseIndices : Cardinality({h \in VerseIndices : h < i}) = n - 1

C17_Parse ==
    pc = "done" =>
        /\ ret.title = args.text[1]
        /\ ret.verses = Verses
        /\ Len(ret.subtitles) = Len(ret.verses)
        /\ \A n \in 1..Len(ret.verses) :
              /\ ret.subtitles[n] = SubtitleAt(VerseIndex(n))
              /\ Contains(args.caesura, ret.verses[n])

\* With the caesura "**": the second line is a verse without a subtitle,
\* the third holds "*" but not the caesura and is the subtitle of the
\* fourth.
C17_Witness ==
    /\ pc = "done" /\ args.caesura = <<"*", "*">>
    /\ args.text = << <<"H">>, <<"*", "*", "b">>, <<"a", "*">>, <<"*", "*", "b">> >>
    /\ ret.subtitles = << EmptyStr, <<"a", "*">> >>
    /\ Len(ret.verses) = 2

(***************************************************************************)
(* C18: when populate_note fails on the j-th note (from 0) because the     *)
(* note lacks a field, add_notes ends with a KeyError that names the       *)
(* field the note type lacks; the collection holds the j notes added       *)
(* before, each of them complete, and not the failing one; the loop has    *)
(* not gone on, nothing was returned and the whole poem was not saved.     *)
(***************************************************************************)
\* add_notes ended with a KeyError.
KeyErrorRaised == pc = "raised" /\ error # "IndexError"

C18_KeyError ==
    KeyErrorRaised =>
        /\ \E f \in NoteFields \ args.note_fields :
              /\ error = KeyErrorOf[f]
              /\ f # "prompt" => Len(notes) = 0
              /\ f = "prompt" =>
                    \A j \in 1..Len(notes) : notes[j].prompt = EmptyStr
        /\ Len(notes) = added
        /\ added < Len(lines)
        /\ \A j \in 1..Len(notes) :
              /\ notes[j].text # EmptyStr
              /\ notes[j].special = <<"<img src=_">> \o title \o <<".js>">>
        /\ ret = -1
        /\ handed = <<>>
        /\ poem = <<>>

\* By-section mode with a note type without the prompt field: the first
\* section has one line and its note was added, the second has two and
\* failed.
C18_Witness ==
    /\ KeyErrorRaised /\ args.mode = "BY_SECTION"
    /\ error = KeyErrorOf["prompt"]
    /\ Len(notes) = 1 /\ Len(lines) = 2 /\ added = 1
    /\ lines[1][1] = 1 /\ lines[2][1] = 2

(***************************************************************************)
(* C19: in Automatic mode, for every group size and every window k, the    *)
(* subtitle trail of the node at position p shows the non-empty subtitles  *)
(* of the lines of positions max(1, p-k) .. p in the order of the lines,   *)
(* without any that equals the one shown just before it.                   *)
(***************************************************************************)
\* The list without the entries equal to the entry before them.
Deduplicated(ls) ==
    LET idx == SelectSeq([i \in 1..Len(ls) |-> i],
                         LAMBDA i : i = 1 \/ ls[i] # ls[i - 1])
    IN  [n \in 1..Len(idx) |-> ls[idx[n]]]

\* The subtitles of the verses number lo .. hi, in order.
VerseSubtitles(lo, hi) ==
    [n \in 1..(hi - lo + 1) |-> SubtitleAt(VerseIndex(lo + n - 1))]

\* The trail of the claim, for positions lo .. hi of a poem in groups of g.
TrailOf(g, lo, hi) ==
    LET subs == VerseSubtitles((lo - 1) * g + 1,
                               Min2(hi * g, Cardinality(VerseIndices)))
    IN  Shown(Deduplicated(SelectSeq(subs, LAMBDA t : t # EmptyStr)))

C19_SubtitleTrail ==
    (JustBuilt /\ args.mode = "AUTOMATIC") =>
        LET g == args.group_lines
        IN  \A p \in 1..NumPositions :
                LET n == NodeAt(p)
                IN  \A k \in 0..MaxContext :
                        format_subtitles(nodes, n, k) = TrailOf(g, Max2(1, p - k), p)

(***************************************************************************)
(* C20: for every PoemSection node and every window k, the context is the  *)
(* section's own subtitle as one entry ('' when the section has no header, *)
(* shown as one empty paragraph), whatever stands before the node; the     *)
(* recitation is all the lines of the section; the subtitle trail is       *)
(* empty.                                                                  *)
(***************************************************************************)
\* The lines of section j, in order.
SectionLines(j) ==
    LET verses == SectionVerses(j)
        idx == SelectSeq([i \in 1..Len(args.text) |-> i],
                         LAMBDA i : i \in verses)
    IN  [n \in 1..Len(idx) |-> args.text[idx[n]]]

\* The windows tried.
Windows == 0..(MaxLines + 1)

C20_PoemSection ==
    (args.mode = "BY_SECTION" /\ Built) =>
        /\ \A j \in 1..Cardinality(SectionStarts) :
              LET n == NodeAt(j)
                  subtitle == SubtitleAt(SectionStart(j))
                  section == SectionLines(j)
              IN  /\ nodes[n].cls = "PoemSection"
                  /\ \A k \in Windows :
                        /\ \A recursing \in BOOLEAN :
                              get_context(nodes, n, k, recursing) = <<subtitle>>
                        /\ format_context(nodes, n, k) = P(subtitle)
                        /\ get_text(nodes, n, k) = section
                        /\ format_subtitles(nodes, n, k) = EmptyStr
        /\ \A j \in 1..Len(notes) :
              /\ notes[j].context = P(SubtitleAt(SectionStart(j)))
              /\ notes[j].text = Shown(SectionLines(j))
              /\ notes[j].subtitles = EmptyStr

\* A section without a header, of one line, and after it a section of two
\* lines under a header: the first note shows an empty paragraph as context
\* and its one line, the second its header and its two lines.
C20_Witness ==
    /\ pc = "done" /\ args.mode = "BY_SECTION" /\ Len(notes) = 2
    /\ SubtitleAt(SectionStart(1)) = EmptyStr
    /\ notes[1].context = <<"<p>", "</p>">>
    /\ Len(SectionLines(1)) = 1 /\ Len(SectionLines(2)) = 2
    /\ notes[2].context = P(<<"H">>)
    /\ notes[2].text = Shown(SectionLines(2))

(***************************************************************************)
(* C21: add_notes returns the number of notes it added to the collection;  *)
(* it adds them one at a time, each after those added before, and the      *)
(* note added later comes from a later position of the chain.              *)
(***************************************************************************)
\* The node the j-th entry of the list "lines" stands for: in By-section
\* mode the entries are pairs until the loop is over.
SourceNode(j) ==
    IF args.mode = "BY_SECTION" /\ pc = "loop" THEN lines[j][2] ELSE lines[j]

\* Every note is the note of the node of its turn, and the nodes of the
\* notes are at increasing positions.
NotesInChainOrder ==
    Built =>
        /\ \A j \in 1..Len(notes) :
              notes[j].current = Str(nodes[SourceNode(j)].start_index)
        /\ \A i, j \in 1..Len(notes) :
              i < j => PositionOf(SourceNode(i)) < PositionOf(SourceNode(j))

C21_SerialNotes ==
    [][/\ \/ notes' = notes
          \/ /\ Len(notes') = Len(notes) + 1
             /\ SubSeq(notes', 1, Len(notes)) = notes
       /\ NotesInChainOrder'
       /\ pc' = "done" => (ret' = Len(notes') /\ ret' = added')]_vars

\* Two notes at step 2, from positions 1 and 3, and 2 returned.
C21_Witness ==
    /\ pc = "done" /\ ret = 2 /\ Len(notes) = 2 /\ args.step = 2
    /\ PositionOf(lines[1]) = 1 /\ PositionOf(lines[2]) = 3

(***************************************************************************)
(* C22: for every node and every recitation window k >= 0, k = 0 too, the  *)
(* recitation holds the text of at most k positions; so does the text      *)
(* field of every note for the window of the call.                         *)
(***************************************************************************)
C22_RecitationBounded ==
    (Built /\ CustomOrAutomatic) =>
        LET pl == PoemLines
            g == args.group_lines
        IN  /\ \A p \in 1..CeilOf(Len(pl), g) :
                  LET n == NodeAt(p)
                  IN  \A k \in 0..(MaxRecite + 1) :
                          \E m \in 0..k :
                              get_text(nodes, n, k) =
                                  RangeLinesOf(pl, g, p, p + m - 1)
            /\ \A i \in 1..Len(notes) :
                  LET p == PositionOf(lines[i])
                  IN  \E m \in 0..args.recite_lines :
                          notes[i].text = Shown(RangeLinesOf(pl, g, p, p + m - 1))

(***************************************************************************)
(* C23: in By-section mode with at least one verse the PoemSection nodes   *)
(* cut the verses into sections: every section has a verse, the verses of  *)
(* a section have the subtitle of the section, two sections in a row have  *)
(* different subtitles, and the lines of the sections in chain order are   *)
(* the verses, in order.                                                   *)
(***************************************************************************)
C23_SectionsPartition ==
    (JustBuilt /\ args.mode = "BY_SECTION") =>
        LET count == Len(nodes) - 1
            section == [j \in 1..count |-> nodes[NodeAt(j)]]
            runs == [j \in 1..count |-> section[j].text_lines]
            before == [j \in 1..count |-> Len(Join(SubSeq(runs, 1, j - 1)))]
        IN  /\ count >= 1
            /\ count = Len(lines)
            /\ Join(runs) = Verses
            /\ \A j \in 1..count :
                  /\ section[j].cls = "PoemSection"
                  /\ Len(runs[j]) >= 1
                  /\ lines[j][1] = Len(runs[j])
                  /\ \A v \in 1..Len(runs[j]) :
                        SubtitleAt(VerseIndex(before[j] + v)) = section[j].subtitle
                  /\ j < count => section[j].subtitle # section[j + 1].subtitle

\* Two sections of one verse each, the first under G and the second under
\* H.
C23_Witness ==
    /\ JustBuilt /\ args.mode = "BY_SECTION" /\ Len(nodes) = 3
    /\ nodes[2].subtitle = <<"G">> /\ nodes[3].subtitle = <<"H">>
    /\ nodes[2].text_lines = << <<"a", "*">> >>
    /\ nodes[3].text_lines = << <<"b", "*">> >>

(***************************************************************************)
(* C24: the chain each of the three builders leaves is well formed.  The   *)
(* sentinel has sequence 0 and start_index 0 and is its own predecessor;   *)
(* every other node is the successor of its predecessor and has the        *)
(* sequence of its predecessor plus 1; start_index grows along the         *)
(* successor links; the last node of the chain, and no other, has no       *)
(* successor; no node occurs twice in the chain; and the list the builder  *)
(* returns is the chain after the sentinel, in order.                      *)
(***************************************************************************)
\* What the builder of the mode returns for the arguments of the call.
BuilderResult ==
    CASE args.mode = "CUSTOM" ->
            poemlines_from_textlines(args.text, args.group_lines)
      [] args.mode = "AUTOMATIC" ->
            poemlines_from_textlines_automatic(
                automatic_parse_text(args.text, args.caesura), args.group_lines)
      [] args.mode = "BY_SECTION" ->
            poemlines_from_textlines_by_section(
                automatic_parse_text(args.text, args.caesura))

C24_ChainWellFormed ==
    Built =>
        LET last == Len(nodes) - 1
        IN  /\ nodes[1].cls = "Beginning"
            /\ nodes[1].seq = 0 /\ nodes[1].start_index = 0
            /\ nodes[1].predecessor = 1
            /\ \A n \in 2..Len(nodes) :
                  /\ nodes[n].cls # "Beginning"
                  /\ nodes[n].predecessor \in 1..Len(nodes)
                  /\ nodes[nodes[n].predecessor].successor = n
                  /\ nodes[n].seq = nodes[nodes[n].predecessor].seq + 1
            /\ \A n \in 1..Len(nodes) :
                  nodes[n].successor # 0 =>
                      /\ nodes[n].successor \in 2..Len(nodes)
                      /\ nodes[nodes[n].successor].start_index
                            > nodes[n].start_index
            /\ LET chain == [p \in 1..Len(nodes) |-> NodeAt(p - 1)]
                   returned == BuilderResult
               IN  /\ \A p, q \in 1..Len(nodes) : chain[p] = chain[q] => p = q
                   /\ \A p \in 1..Len(nodes) :
                         (nodes[chain[p]].successor = 0) <=> (p = Len(nodes))
                   /\ returned.nodes = nodes
                   /\ Len(returned.lines) = last
                   /\ \A p \in 1..last :
                         chain[p + 1] = IF args.mode = "BY_SECTION"
                                        THEN returned.lines[p][2]
                                        ELSE returned.lines[p]

\* A chain of the sentinel and two GroupedLine nodes, of two lines each.
C24_Witness ==
    /\ JustBuilt /\ Len(nodes) = 3 /\ nodes[3].cls = "GroupedLine"
    /\ nodes[1].successor = 2 /\ nodes[2].successor = 3
    /\ nodes[3].successor = 0 /\ nodes[3].seq = 2 /\ nodes[3].start_index = 3
    /\ Len(nodes[3].text_lines) = 2

(***************************************************************************)
(* C25: in every mode and for every group size, the start_index of a node  *)
(* other than the sentinel is 1 plus the number of physical lines of the   *)
(* nodes before it, the index from 1 of its first line in the poem (the    *)
(* verses in Automatic and By-section mode); for a SingleLine node it is   *)
(* the sequence number.                                                    *)
(***************************************************************************)
\* The physical lines a node holds.
PhysicalLines(node) ==
    IF node.cls = "SingleLine" THEN <<node.text>> ELSE node.text_lines

C25_StartIndex ==
    Built =>
        LET last == Len(nodes) - 1
            held == [p \in 1..last |-> PhysicalLines(nodes[NodeAt(p)])]
            pl == PoemLines
        IN  \A p \in 1..last :
                LET node == nodes[NodeAt(p)]
                IN  /\ node.start_index = 1 + Len(Join(SubSeq(held, 1, p - 1)))
                    /\ node.start_index \in 1..Len(pl)
                    /\ pl[node.start_index] = held[p][1]
                    /\ node.cls = "SingleLine" => node.start_index = node.seq

\* Four lines in groups of two: the note of the second group has 3 as its
\* current index.
C25_Witness ==
    /\ pc = "done" /\ CustomOrAutomatic /\ args.group_lines = 2
    /\ Len(PoemLines) = 4 /\ args.step = 1 /\ Len(notes) = 2
    /\ nodes[lines[2]].start_index = 3 /\ nodes[lines[2]].seq = 2
    /\ notes[2].current = <<"3">>

(***************************************************************************)
(* C26: for group_lines N > 1 and a poem of n >= 1 lines the GroupedLine   *)
(* nodes cut the lines into groups: there are ceil(n / N) nodes, each but  *)
(* the last holds N lines, the last holds 1 to N, the lines of the nodes   *)
(* in chain order are the poem, and no fill value of the last group is in  *)
(* a node's lines, context or recitation.                                  *)
(***************************************************************************)
C26_GroupsPartition ==
    (JustBuilt /\ CustomOrAutomatic /\ args.group_lines > 1
        /\ Len(PoemLines) >= 1) =>
        LET pl == PoemLines
            g == args.group_lines
            count == Len(nodes) - 1
            held == [p \in 1..count |-> nodes[NodeAt(p)].text_lines]
        IN  /\ count = CeilOf(Len(pl), g)
            /\ Join(held) = pl
            /\ \A p \in 1..count :
                  LET n == NodeAt(p)
                  IN  /\ nodes[n].cls = "GroupedLine"
                      /\ p < count => Len(held[p]) = g
                      /\ Len(held[p]) \in 1..g
                      /\ \A l \in 1..Len(held[p]) : held[p][l] # None
                      /\ \A k \in 0..(MaxContext + 1) :
                            LET c == get_context(nodes, n, k, FALSE)
                            IN  \A l \in 1..Len(c) : c[l] # None
                      /\ \A k \in 1..(MaxRecite + 1) :
                            LET t == get_text(nodes, n, k)
                            IN  \A l \in 1..Len(t) : t[l] # None

\* Three lines in groups of two: the last node holds the one line left.
C26_Witness ==
    /\ JustBuilt /\ args.mode = "CUSTOM" /\ args.group_lines = 2
    /\ Len(args.text) = 3 /\ Len(nodes) = 3
    /\ Len(nodes[2].text_lines) = 2
    /\ nodes[3].text_lines = <<args.text[3]>>

(***************************************************************************)
(* C27: the step selects the nodes that become notes and nothing else: the *)
(* j-th note of a call with step s is the note of the node at position     *)
(* (j - 1) * s + 1, and its context, recitation, prompt and subtitle trail *)
(* are those the call with step 1 writes for that node, so they show the   *)
(* lines of the positions the sampling skipped.                            *)
(***************************************************************************)
C27_StepKeepsWindowing ==
    (Built /\ CustomOrAutomatic) =>
        LET one == BuilderResult
            s == args.step
            last == NumPositions
        IN  \A j \in 1..Len(notes) :
                LET at == (j - 1) * s + 1
                    n == one.lines[at]
                    ref == populate_note(one.nodes, n, note_constructor, title,
                               args.tags, args.context_lines,
                               args.recite_lines, args.deck_id, 1, <<>>)
                    before == PositionLines(at - 1)
                    after == PositionLines(at + 1)
                IN  /\ lines[j] = n
                    /\ nodes = one.nodes
                    /\ notes[j].context = ref.context
                    /\ notes[j].text = ref.text
                    /\ notes[j].prompt = ref.prompt
                    /\ notes[j].subtitles = ref.subtitles
                    /\ (s > 1 /\ j > 1 /\ args.context_lines >= 1) =>
                          \A l \in 1..Len(before) :
                              Contains(P(before[l]), notes[j].context)
                    /\ (s > 1 /\ at < last /\ args.recite_lines >= 2) =>
                          \A l \in 1..Len(after) :
                              Contains(P(after[l]), notes[j].text)

\* With step 2 the second note is the note of the third line, and its
\* context shows the second line, which has no note.
C27_Witness ==
    /\ Built /\ args.mode = "CUSTOM" /\ args.step = 2 /\ args.group_lines = 1
    /\ args.context_lines = 1 /\ Len(args.text) = 3 /\ DistinctLines
    /\ Len(notes) = 2
    /\ notes[2].current = <<"3">>
    /\ notes[2].context = P(args.text[2])
    /\ \A j \in 1..Len(notes) : notes[j].current # <<"2">>

(***************************************************************************)
(* C28: when add_notes is done, in every mode and for every step, the      *)
(* current-position index of every note is the number of a saved line of   *)
(* the whole poem, and that saved line is the first line of the note's     *)
(* recitation.                                                             *)
(***************************************************************************)
C28_StartIndexMarksSavedLine ==
    pc = "done" =>
        \A j \in 1..Len(notes) :
            LET node == nodes[SourceNode(j)]
                m == node.start_index
            IN  /\ notes[j].current = Str(m)
                /\ m \in 1..Len(poem)
                /\ poem[m] = format_line(m, Head(PhysicalLines(node)))

(***************************************************************************)
(* C29: for every group size, a note whose window of positions             *)
(* max(1, p-k) .. p holds no line with a non-empty subtitle has an empty   *)
(* subtitle trail; every note of Custom mode is such a note.               *)
(***************************************************************************)
C29_NoSubtitleNoTrail ==
    (Built /\ CustomOrAutomatic) =>
        LET g == args.group_lines
            k == args.context_lines
        IN  \A j \in 1..Len(notes) :
                LET p == PositionOf(lines[j])
                    bare ==
                        IF args.mode = "CUSTOM" THEN TRUE
                        ELSE LET subs == VerseSubtitles(
                                     (Max2(1, p - k) - 1) * g + 1,
                                     Min2(p * g, Cardinality(VerseIndices)))
                             IN  \A n \in 1..Len(subs) : subs[n] = EmptyStr
                IN  bare => notes[j].subtitles = EmptyStr

(***************************************************************************)
(* C30: cleanse_text returns a list for every string.  For a string with   *)
(* no content line (the empty string, only empty or whitespace-only lines, *)
(* or only comment lines) the list is empty and nothing is raised; for any *)
(* other string every line of the list is non-empty and the list holds the *)
(* content lines once each, in their order.                                *)
(***************************************************************************)
\* What a raw line holds besides its comment and the whitespace at its ends.
ContentOf(line) ==
    LET hashes == {i \in 1..Len(line) : line[i] = "#"}
        first == IF hashes = {} THEN Len(line) + 1
                 ELSE CHOOSE i \in hashes : \A h \in hashes : i <= h
    IN  Trimmed(SubSeq(line, 1, first - 1))

\* The content lines of the raw text, in order.
ContentLines ==
    SelectSeq([i \in 1..Len(RawLines) |-> ContentOf(RawLines[i])],
              LAMBDA l : l # EmptyStr)

\* A line of the result without the span and the markers.
Bare(line) == SelectSeq(Unwrapped(line), LAMBDA c : c \notin {"X", "Y"})

C30_AlwaysAList ==
    FirstRun =>
        LET content == ContentLines
        IN  /\ pc = "done"
            /\ error = ""
            /\ IF content = <<>> THEN ret = <<>>
               ELSE /\ Len(ret) = Len(content)
                    /\ \A j \in 1..Len(ret) :
                          /\ ret[j] # EmptyStr
                          /\ Bare(ret[j]) = content[j]

====
